---------------------------- MODULE Spec2Model ----------------------------
(***************************************************************************)
(* The Streamlit script src/app.py as a state machine.                     *)
(*                                                                         *)
(* Streamlit re-executes the whole script, top to bottom and in a fresh    *)
(* namespace, after every user interaction.  A user interaction (upload,   *)
(* checkbox, selectbox, button) changes the widget state and starts a run; *)
(* the run then walks through the script's statements, one action per      *)
(* block of statements, until the script ends or an uncaught exception     *)
(* stops it.  Only then can the user interact again.                       *)
(***************************************************************************)
EXTENDS Naturals, Sequences, FiniteSets, TLC

(***************************************************************************)
(* Bounds of the model.                                                    *)
(***************************************************************************)
MaxRows == 2

(***************************************************************************)
(* Values.  Every cell, key and text is a string; the three markers below  *)
(* stand for pandas' NaN / NaT and for a Python name that is not bound.    *)
(***************************************************************************)
NaN == "<NaN>"
NaT == "<NaT>"
Undefined == "<undefined>"

COL_NAME == "Pipeline name"
COL_START == "Run start"
COL_STATUS == "Status"
COL_ERROR == "Error"
COL_KEY == "PipelineKey"
COL_DATE == "Date"

AllCols == {COL_NAME, COL_START, COL_STATUS, COL_ERROR}

T1 == "6/10/2025, 5:03:19 PM"
T2 == "6/11/2025, 9:00:00 AM"

(***************************************************************************)
(* The uploaded files.  A file is either bytes that are not well-formed    *)
(* CSV, or a header and up to MaxRows lines.  The lines are drawn from a   *)
(* pool of log lines that covers: the casings of "failed", a non-failed    *)
(* status, a blank status, two failed runs with the same name and start    *)
(* (and different error cells), blank / whitespace-only error cells, a     *)
(* blank and an unparseable run start, and a blank pipeline name.  A       *)
(* header is the four expected columns or the four with one left out.      *)
(* Every cell is blank or a text that read_csv keeps as text; columns of   *)
(* numbers only are not among the inputs.                                  *)
(***************************************************************************)
RawRow(n, s, st, e) ==
    [c \in AllCols |-> CASE c = COL_NAME -> n
                         [] c = COL_START -> s
                         [] c = COL_STATUS -> st
                         [] OTHER -> e]

RowPool ==
    { RawRow("A", T1, "Failed", "boom"),
      RawRow("A", T1, "failed", " "),
      RawRow("B", T2, "FAILED", ""),
      RawRow("B", "unknown", "Succeeded", ""),
      RawRow("A", "", "Failed", "oops"),
      RawRow("", T2, "", "boom"),
      RawRow("", T1, "Failed", "boom") }

Headers == {AllCols} \cup { AllCols \ {c} : c \in AllCols }

Project(r, h) == [c \in h |-> r[c]]

Malformed == [kind |-> "malformed", header |-> {}, rows |-> <<>>]

Bodies == UNION { [1..n -> RowPool] : n \in 0..MaxRows }

CsvFiles ==
    { [kind |-> "csv", header |-> h,
       rows |-> [i \in 1..Len(body) |-> Project(body[i], h)]] :
        h \in Headers, body \in Bodies }

Files == {Malformed} \cup CsvFiles

NoFile == [kind |-> "none", header |-> {}, rows |-> <<>>]

(***************************************************************************)
(* DataFrames.  A table is its set of column labels and its rows in file   *)
(* order; a row maps each column label to a cell.                          *)
(***************************************************************************)
NoTable == [cols |-> {}, rows |-> <<>>]

\* pandas' default na_values: a blank cell is read as NaN.
ParseCell(c) == IF c \in {"", "NA", "N/A", "nan", "NaN", "null"} THEN NaN ELSE c

\* pd.read_csv on a well-formed file (app.py:33).
ReadCsv(f) ==
    [cols |-> f.header,
     rows |-> [i \in 1..Len(f.rows) |->
                 [c \in f.header |-> ParseCell(f.rows[i][c])]]]

\* A column read by read_csv holds text (dtype object) unless the table has
\* rows and every cell of the column is NaN (dtype float64).
IsTextCol(t, c) ==
    \/ t.rows = <<>>
    \/ \E i \in 1..Len(t.rows) : t.rows[i][c] # NaN

\* str.lower(): NaN stays NaN.
Lower(s) ==
    CASE s = NaN -> NaN
      [] s \in {"Failed", "FAILED", "failed"} -> "failed"
      [] s \in {"Succeeded", "succeeded"} -> "succeeded"
      [] s \in {"InProgress", "inprogress"} -> "inprogress"
      [] s \in {"Queued", "queued"} -> "queued"
      [] OTHER -> s

\* The row mask df['Status'].str.lower() == 'failed': NaN compares unequal.
IsFailedRow(r) == Lower(r[COL_STATUS]) = "failed"

\* df[mask]: the rows of the mask, order kept (app.py:40, app.py:125).
FailedRows(t) == SelectSeq(t.rows, IsFailedRow)

(***************************************************************************)
(* Tab 1 helpers.                                                          *)
(***************************************************************************)
\* Series + str / Series + Series on text columns: a NaN operand gives NaN.
Concat(a, b) == IF a = NaN \/ b = NaN THEN NaN ELSE a \o b

\* failed_df['Pipeline name'] + " - " + failed_df['Run start'] (app.py:57).
PipelineKey(r) == Concat(Concat(r[COL_NAME], " - "), r[COL_START])

\* failed_df['PipelineKey'] = ...: the frame gains the key column (app.py:57).
WithPipelineKey(t) ==
    [cols |-> t.cols \cup {COL_KEY},
     rows |-> [i \in 1..Len(t.rows) |->
                 [c \in t.cols \cup {COL_KEY} |->
                    IF c = COL_KEY THEN PipelineKey(t.rows[i]) ELSE t.rows[i][c]]]]

\* failed_df['PipelineKey'].tolist() (app.py:58).
KeyList(t) == [i \in 1..Len(t.rows) |-> t.rows[i][COL_KEY]]

\* failed_df[failed_df['PipelineKey'] == selected_pipeline_key] (app.py:61):
\* the rows whose key equals the selection, order kept; NaN equals nothing.
SelectByKey(t, k) ==
    SelectSeq(t.rows, LAMBDA r : r[COL_KEY] # NaN /\ k # NaN /\ r[COL_KEY] = k)

\* Variant: the error text of the last matching row.
LastError(rows) == rows[Len(rows)][COL_ERROR]

\* selected_row['Error'].values[0] (app.py:64).
FirstError(rows) == rows[1][COL_ERROR]

\* Python truthiness of a cell: only the empty string is falsy; NaN is a
\* non-zero float and so truthy.
Falsy(v) == v = ""

\* str(v): NaN prints as "nan".
Str(v) == IF v = NaN THEN "nan" ELSE v

\* str.strip() on the texts of the model: whitespace-only becomes "".
Strip(s) == IF s \in {"", " ", "  ", "\t"} THEN "" ELSE s

\* not error_text or str(error_text).strip() == "" (app.py:67).
NoErrorMessage(v) == Falsy(v) \/ Strip(Str(v)) = ""

SystemContent ==
    "You are an expert Azure Data Factory and Databricks pipeline engineer. Help diagnose pipeline failures and suggest fixes."

\* Variant: a prompt that leaves the error text out.
HumanContentNoError(key, err) ==
    "This is the error log for pipeline '" \o Str(key) \o "':\n\n"
        \o "\n\nPlease analyze and suggest what went wrong and how to fix it."

\* The f-string of app.py:72.
HumanContent(key, err) ==
    "This is the error log for pipeline '" \o Str(key) \o "':\n\n" \o Str(err)
        \o "\n\nPlease analyze and suggest what went wrong and how to fix it."

\* messages = [SystemMessage(...), HumanMessage(...)] (app.py:70-73).
Messages(key, err) ==
    [system |-> SystemContent, human |-> HumanContent(key, err)]

(***************************************************************************)
(* Tab 2 helpers.                                                          *)
(***************************************************************************)
TopN == 5

Min(a, b) == IF a < b THEN a ELSE b

\* status_counts.get(v, 0) on df['Status'].str.lower().value_counts()
\* (app.py:98-104): the rows whose lower-cased status is v.
StatusCount(t, v) ==
    Cardinality({ i \in 1..Len(t.rows) : Lower(t.rows[i][COL_STATUS]) = v })

Metrics(t) ==
    [succeeded |-> StatusCount(t, "succeeded"),
     failed |-> StatusCount(t, "failed"),
     inprogress |-> StatusCount(t, "inprogress"),
     queued |-> StatusCount(t, "queued")]

\* df['Status'].value_counts() (app.py:113): a count per distinct raw status,
\* NaN dropped.
StatusValueCounts(t) ==
    [v \in { t.rows[i][COL_STATUS] : i \in 1..Len(t.rows) } \ {NaN} |->
        Cardinality({ i \in 1..Len(t.rows) : t.rows[i][COL_STATUS] = v })]

\* The pipeline names of the failed rows, NaN dropped (value_counts drops it).
FailingNames(t) ==
    { t.rows[i][COL_NAME] : i \in { j \in 1..Len(t.rows) : IsFailedRow(t.rows[j]) } }
        \ {NaN}

FailureCount(t, n) ==
    Cardinality({ i \in 1..Len(t.rows) :
                    IsFailedRow(t.rows[i]) /\ t.rows[i][COL_NAME] = n })

Perms(S) ==
    { p \in [1..Cardinality(S) -> S] :
        \A i, j \in 1..Cardinality(S) : i # j => p[i] # p[j] }

\* df[failed]['Pipeline name'].value_counts() (app.py:125-126): one entry per
\* name, sorted by descending count.  value_counts sorts with sort_values'
\* default kind, quicksort, which is not a stable sort: the order of names
\* with equal counts is whatever the numpy build's sort leaves, so every
\* order that is descending by count is a possible result.
ValueCountsResults(t) ==
    { [i \in 1..Len(p) |-> [name |-> p[i], count |-> FailureCount(t, p[i])]] :
        p \in { q \in Perms(FailingNames(t)) :
                  \A i, j \in 1..Len(q) :
                      i < j => FailureCount(t, q[i]) >= FailureCount(t, q[j]) } }

\* Series.nlargest(n), keep='first' (app.py:127): the n largest entries in
\* descending order, entries with equal counts in the order of the series.
NLargest(n, s) ==
    LET Rank(i) == Cardinality({ j \in 1..Len(s) :
                        \/ s[j].count > s[i].count
                        \/ s[j].count = s[i].count /\ j < i })
    IN  [k \in 1..Min(n, Len(s)) |->
            s[CHOOSE i \in 1..Len(s) : Rank(i) = k - 1]]

\* pd.to_datetime(v, errors='coerce') (app.py:143): the timestamp of a
\* parseable text, NaT for NaN and for a text that is no date.
ToDatetime(v) ==
    CASE v = "6/10/2025, 5:03:19 PM" -> "2025-06-10 17:03:19"
      [] v = "6/11/2025, 9:00:00 AM" -> "2025-06-11 09:00:00"
      [] OTHER -> NaT

\* Series.dt.date (app.py:144).
DateOf(ts) ==
    CASE ts = "2025-06-10 17:03:19" -> "2025-06-10"
      [] ts = "2025-06-11 09:00:00" -> "2025-06-11"
      [] OTHER -> NaT

\* df['Run start'] = pd.to_datetime(...); df['Date'] = ... (app.py:143-144):
\* both statements assign into df itself.
WithDates(t) ==
    [cols |-> t.cols \cup {COL_DATE},
     rows |-> [i \in 1..Len(t.rows) |->
                 [c \in t.cols \cup {COL_DATE} |->
                    CASE c = COL_START -> ToDatetime(t.rows[i][COL_START])
                      [] c = COL_DATE -> DateOf(ToDatetime(t.rows[i][COL_START]))
                      [] OTHER -> t.rows[i][c]]]]

\* df.groupby('Date').size() (app.py:145): a count per date, NaT dropped.
DailyRuns(t) ==
    [d \in { t.rows[i][COL_DATE] : i \in 1..Len(t.rows) } \ {NaT} |->
        Cardinality({ i \in 1..Len(t.rows) : t.rows[i][COL_DATE] = d })]

(***************************************************************************)
(* State.                                                                  *)
(***************************************************************************)
VARIABLES
    \* widget state, kept by Streamlit across runs
    uploaded_file,          \* st.file_uploader's value (NoFile: None)
    show_failed_only,       \* the checkbox
    sel,                    \* the selectbox's chosen position
    button,                 \* TRUE in the run a click started
    \* the run
    pc,                     \* the statement the run is at; "idle" between runs
    exc,                    \* the uncaught exception that stopped the run
    \* the script's namespace in this run
    heap,                   \* the DataFrame objects
    df, failed_df, filtered_df,          \* names bound to DataFrame objects
    pipeline_keys, selected_pipeline_key, selected_row, error_text,
    \* what the run has put on the page and sent out
    tabs,                   \* the tabs whose body has run
    widgets,                \* the widgets the run has rendered
    notices,                \* st.warning / st.info / st.markdown output
    shown,                  \* the table given to st.dataframe
    invoked,                \* the calls of model.invoke, each with its outcome
    metrics, pie_df, failed_counts, daily_runs

session == <<uploaded_file, show_failed_only, sel, button>>
frames == <<heap, df, failed_df, filtered_df>>
tab1ns == <<pipeline_keys, selected_pipeline_key, selected_row, error_text>>
page == <<tabs, widgets, notices, shown, invoked>>
dash == <<metrics, pie_df, failed_counts, daily_runs>>
vars == <<session, pc, exc, frames, tab1ns, page, dash>>

OBJ_CSV == "frame0"
OBJ_MASKED == "frame1"
ObjIds == {OBJ_CSV, OBJ_MASKED}

Notice(k, t) == [kind |-> k, text |-> t]

MSG_UPLOAD == "Please upload a CSV file to get started."
MSG_NO_STATUS == "No 'Status' column found."
MSG_NO_ERROR == "No error message available for the selected pipeline."
MSG_DASH_UPLOAD == "Please upload a CSV file in the 'ADF CSV Analyzer' tab to view dashboard."
MSG_DASH_COLS == "Required columns (like 'Status' and 'Pipeline name') not found in the CSV."
RESPONSE == "response.content"

\* A run starts in a fresh namespace with an empty page.
FreshRun ==
    /\ pc' = "tab1"
    /\ exc' = "none"
    /\ heap' = [o \in ObjIds |-> NoTable]
    /\ df' = Undefined
    /\ failed_df' = Undefined
    /\ filtered_df' = Undefined
    /\ pipeline_keys' = <<>>
    /\ selected_pipeline_key' = Undefined
    /\ selected_row' = <<>>
    /\ error_text' = Undefined
    /\ tabs' = {}
    /\ widgets' = {}
    /\ notices' = {}
    /\ shown' = <<>>
    /\ invoked' = <<>>
    /\ metrics' = <<>>
    /\ pie_df' = <<>>
    /\ failed_counts' = <<>>
    /\ daily_runs' = <<>>

\* The session opens with the first run of the script, nothing uploaded.
Init ==
    /\ uploaded_file = NoFile
    /\ show_failed_only = FALSE
    /\ sel = 1
    /\ button = FALSE
    /\ pc = "tab1"
    /\ exc = "none"
    /\ heap = [o \in ObjIds |-> NoTable]
    /\ df = Undefined
    /\ failed_df = Undefined
    /\ filtered_df = Undefined
    /\ pipeline_keys = <<>>
    /\ selected_pipeline_key = Undefined
    /\ selected_row = <<>>
    /\ error_text = Undefined
    /\ tabs = {}
    /\ widgets = {}
    /\ notices = {}
    /\ shown = <<>>
    /\ invoked = <<>>
    /\ metrics = <<>>
    /\ pie_df = <<>>
    /\ failed_counts = <<>>
    /\ daily_runs = <<>>

\* An exception nobody catches ends the run where it is raised.
Raise(e) ==
    /\ pc' = "idle"
    /\ exc' = e

(***************************************************************************)
(* The user's interactions; each starts a run.                             *)
(***************************************************************************)
\* Streamlit keeps a widget's value from run to run only while the widget
\* is rendered: a checkbox the last run did not reach is unchecked again.
KeptCheckbox == IF "checkbox" \in widgets THEN show_failed_only ELSE FALSE

\* The user puts a file into the uploader (app.py:30).
Upload(f) ==
    /\ pc = "idle"
    /\ uploaded_file' = f
    /\ show_failed_only' = KeptCheckbox
    /\ sel' = 1
    /\ button' = FALSE
    /\ FreshRun

\* The user removes the file from the uploader (app.py:30).
ClearUpload ==
    /\ pc = "idle"
    /\ uploaded_file # NoFile
    /\ uploaded_file' = NoFile
    /\ show_failed_only' = KeptCheckbox
    /\ sel' = 1
    /\ button' = FALSE
    /\ FreshRun

\* The user flips the checkbox the last run rendered (app.py:36).
ToggleShowFailed ==
    /\ pc = "idle"
    /\ "checkbox" \in widgets
    /\ show_failed_only' = ~show_failed_only
    /\ sel' = 1
    /\ button' = FALSE
    /\ UNCHANGED uploaded_file
    /\ FreshRun

\* The user picks an option of the selectbox the last run rendered
\* (app.py:60).
SelectPipeline(i) ==
    /\ pc = "idle"
    /\ "selectbox" \in widgets
    /\ i \in 1..Len(pipeline_keys)
    /\ sel' = i
    /\ button' = FALSE
    /\ UNCHANGED <<uploaded_file, show_failed_only>>
    /\ FreshRun

\* The user presses the button the last run rendered (app.py:66).
ClickAskAI ==
    /\ pc = "idle"
    /\ "button" \in widgets
    /\ button' = TRUE
    /\ UNCHANGED <<uploaded_file, show_failed_only, sel>>
    /\ FreshRun

(***************************************************************************)
(* Tab 1: the analyzer (app.py:27-82).                                     *)
(***************************************************************************)
\* Variant: the filter narrows the frame it is applied to, in place.
SameFrame(src) == src

\* df[mask] builds a new DataFrame object; the frame it was taken from is
\* left as it is (app.py:40).
NewFrame(src) == OBJ_MASKED

\* df[df['Status'].str.lower() == 'failed'] (app.py:40).
MaskedFrame(t) == [cols |-> t.cols, rows |-> FailedRows(t)]

\* app.py:27-33 and 81-82: the uploader, then read_csv or the upload hint.
Tab1Upload ==
    /\ pc = "tab1"
    /\ tabs' = tabs \cup {"tab1"}
    /\ IF uploaded_file = NoFile
       THEN /\ notices' = notices \cup {Notice("info", MSG_UPLOAD)}
            /\ pc' = "tab2"
            /\ UNCHANGED <<exc, frames>>
       ELSE IF uploaded_file.kind = "malformed"
       THEN /\ Raise("ParserError")
            /\ UNCHANGED <<notices, frames>>
       ELSE /\ heap' = [heap EXCEPT ![OBJ_CSV] = ReadCsv(uploaded_file)]
            /\ df' = OBJ_CSV
            /\ pc' = "filter"
            /\ UNCHANGED <<exc, notices, failed_df, filtered_df>>
    /\ UNCHANGED <<session, tab1ns, widgets, shown, invoked, dash>>

\* app.py:36-46: the checkbox and the failure filter.
Tab1Filter ==
    /\ pc = "filter"
    /\ widgets' = widgets \cup {"checkbox"}
    /\ IF show_failed_only
       THEN IF COL_STATUS \in heap[df].cols
            THEN IF IsTextCol(heap[df], COL_STATUS)
                 THEN /\ heap' = [heap EXCEPT ![NewFrame(df)] = MaskedFrame(heap[df])]
                      /\ failed_df' = NewFrame(df)
                      /\ filtered_df' = NewFrame(df)
                      /\ pc' = "display"
                      /\ UNCHANGED <<exc, notices>>
                 ELSE \* .str on a float64 column
                      /\ Raise("AttributeError")
                      /\ UNCHANGED <<heap, failed_df, filtered_df, notices>>
            ELSE /\ notices' = notices \cup {Notice("warning", MSG_NO_STATUS)}
                 /\ filtered_df' = df
                 /\ pc' = "display"
                 /\ UNCHANGED <<exc, heap, failed_df>>
       ELSE /\ filtered_df' = df
            /\ pc' = "display"
            /\ UNCHANGED <<exc, heap, failed_df, notices>>
    /\ UNCHANGED <<session, df, tab1ns, tabs, shown, invoked, dash>>

\* app.py:48-50: st.dataframe(filtered_df).
Tab1Display ==
    /\ pc = "display"
    /\ shown' = <<heap[filtered_df]>>
    /\ pc' = "askgate"
    /\ UNCHANGED <<session, exc, frames, tab1ns, tabs, widgets, notices, invoked, dash>>

\* app.py:53: if show_failed_only and not failed_df.empty.  failed_df is
\* bound only by the branch of the filter that found a Status column.
Tab1AskGate ==
    /\ pc = "askgate"
    /\ IF ~show_failed_only
       THEN pc' = "tab2" /\ UNCHANGED exc
       ELSE IF failed_df = Undefined
       THEN Raise("NameError")
       ELSE IF heap[failed_df].rows = <<>>
       THEN pc' = "tab2" /\ UNCHANGED exc
       ELSE pc' = "keys" /\ UNCHANGED exc
    /\ UNCHANGED <<session, frames, tab1ns, page, dash>>

\* app.py:57-58: the PipelineKey column of failed_df and the list of keys.
\* A missing column is a KeyError; a float64 'Pipeline name' column plus a
\* str is a TypeError.
Tab1Keys ==
    /\ pc = "keys"
    /\ IF COL_NAME \notin heap[failed_df].cols
       THEN Raise("KeyError") /\ UNCHANGED <<heap, pipeline_keys>>
       ELSE IF ~IsTextCol(heap[df], COL_NAME)
       THEN Raise("TypeError") /\ UNCHANGED <<heap, pipeline_keys>>
       ELSE IF COL_START \notin heap[failed_df].cols
       THEN Raise("KeyError") /\ UNCHANGED <<heap, pipeline_keys>>
       ELSE /\ heap' = [heap EXCEPT ![failed_df] = WithPipelineKey(heap[failed_df])]
            /\ pipeline_keys' = KeyList(WithPipelineKey(heap[failed_df]))
            /\ pc' = "select"
            /\ UNCHANGED exc
    /\ UNCHANGED <<session, df, failed_df, filtered_df, selected_pipeline_key,
                   selected_row, error_text, page, dash>>

\* app.py:60-63: the selectbox and the rows of the selected key.
Tab1Select ==
    /\ pc = "select"
    /\ widgets' = widgets \cup {"selectbox"}
    /\ selected_pipeline_key' = pipeline_keys[sel]
    /\ selected_row' = SelectByKey(heap[failed_df], pipeline_keys[sel])
    /\ pc' = IF selected_row' = <<>> THEN "tab2" ELSE "error"
    /\ UNCHANGED <<session, exc, frames, pipeline_keys, error_text, tabs, notices,
                   shown, invoked, dash>>

\* app.py:64: error_text = selected_row['Error'].values[0].
Tab1Error ==
    /\ pc = "error"
    /\ IF COL_ERROR \notin heap[failed_df].cols
       THEN Raise("KeyError") /\ UNCHANGED error_text
       ELSE /\ error_text' = FirstError(selected_row)
            /\ pc' = "button"
            /\ UNCHANGED exc
    /\ UNCHANGED <<session, frames, pipeline_keys, selected_pipeline_key,
                   selected_row, page, dash>>

\* app.py:66-73: the button, and on a click the check of the error text.
Tab1Button ==
    /\ pc = "button"
    /\ widgets' = widgets \cup {"button"}
    /\ IF button
       THEN IF NoErrorMessage(error_text)
            THEN /\ notices' = notices \cup {Notice("info", MSG_NO_ERROR)}
                 /\ pc' = "tab2"
            ELSE /\ pc' = "invoke"
                 /\ UNCHANGED notices
       ELSE /\ pc' = "tab2"
            /\ UNCHANGED notices
    /\ UNCHANGED <<session, exc, frames, tab1ns, tabs, shown, invoked, dash>>

\* app.py:75-79: model.invoke(messages) returns a response, which is shown,
\* or raises.
Tab1Invoke(outcome) ==
    /\ pc = "invoke"
    /\ invoked' = Append(invoked, [messages |-> Messages(selected_pipeline_key, error_text),
                                   outcome |-> outcome])
    /\ IF outcome = "ok"
       THEN /\ notices' = notices \cup {Notice("markdown", RESPONSE)}
            /\ pc' = "tab2"
            /\ UNCHANGED exc
       ELSE /\ Raise("InvokeError")
            /\ UNCHANGED notices
    /\ UNCHANGED <<session, frames, tab1ns, tabs, widgets, shown, dash>>

(***************************************************************************)
(* Tab 2: the dashboard (app.py:85-157).                                   *)
(***************************************************************************)
\* app.py:85-93: the dashboard's entry checks.
Tab2Entry ==
    /\ pc = "tab2"
    /\ tabs' = tabs \cup {"tab2"}
    /\ IF uploaded_file = NoFile
       THEN /\ notices' = notices \cup {Notice("info", MSG_DASH_UPLOAD)}
            /\ pc' = "tab3"
       ELSE IF COL_STATUS \notin heap[df].cols \/ COL_NAME \notin heap[df].cols
       THEN /\ notices' = notices \cup {Notice("warning", MSG_DASH_COLS)}
            /\ pc' = "tab3"
       ELSE /\ pc' = "kpi"
            /\ UNCHANGED notices
    /\ UNCHANGED <<session, exc, frames, tab1ns, widgets, shown, invoked, dash>>

\* app.py:96-104: the four metrics.
Tab2Kpi ==
    /\ pc = "kpi"
    /\ IF IsTextCol(heap[df], COL_STATUS)
       THEN /\ metrics' = <<Metrics(heap[df])>>
            /\ pc' = "charts"
            /\ UNCHANGED exc
       ELSE \* .str on a float64 column
            /\ Raise("AttributeError")
            /\ UNCHANGED metrics
    /\ UNCHANGED <<session, frames, tab1ns, page, pie_df, failed_counts, daily_runs>>

\* app.py:107-139: the status pie and the top failing pipelines.
Tab2Charts ==
    /\ pc = "charts"
    /\ pie_df' = <<StatusValueCounts(heap[df])>>
    /\ \E vc \in ValueCountsResults(heap[df]) :
           failed_counts' = <<NLargest(TopN, vc)>>
    /\ pc' = "trend"
    /\ UNCHANGED <<session, exc, frames, tab1ns, page, metrics, daily_runs>>

\* app.py:141-157: the runs per day.  The two assignments write into df.
Tab2Trend ==
    /\ pc = "trend"
    /\ IF COL_START \in heap[df].cols
       THEN /\ heap' = [heap EXCEPT ![df] = WithDates(heap[df])]
            /\ daily_runs' = <<DailyRuns(WithDates(heap[df]))>>
       ELSE UNCHANGED <<heap, daily_runs>>
    /\ pc' = "tab3"
    /\ UNCHANGED <<session, exc, df, failed_df, filtered_df, tab1ns, page,
                   metrics, pie_df, failed_counts>>

(***************************************************************************)
(* Tabs 3 and 4 (app.py:160-174).                                          *)
(***************************************************************************)
Tab3About ==
    /\ pc = "tab3"
    /\ tabs' = tabs \cup {"tab3"}
    /\ pc' = "tab4"
    /\ UNCHANGED <<session, exc, frames, tab1ns, widgets, notices, shown, invoked, dash>>

\* The last statement of the script: the run ends.
Tab4ActiveFailures ==
    /\ pc = "tab4"
    /\ tabs' = tabs \cup {"tab4"}
    /\ pc' = "idle"
    /\ UNCHANGED <<session, exc, frames, tab1ns, widgets, notices, shown, invoked, dash>>

Next ==
    \/ \E f \in Files : Upload(f)
    \/ ClearUpload
    \/ ToggleShowFailed
    \/ \E i \in 1..MaxRows : SelectPipeline(i)
    \/ ClickAskAI
    \/ Tab1Upload
    \/ Tab1Filter
    \/ Tab1Display
    \/ Tab1AskGate
    \/ Tab1Keys
    \/ Tab1Select
    \/ Tab1Error
    \/ Tab1Button
    \/ \E outcome \in {"ok", "raise"} : Tab1Invoke(outcome)
    \/ Tab2Entry
    \/ Tab2Kpi
    \/ Tab2Charts
    \/ Tab2Trend
    \/ Tab3About
    \/ Tab4ActiveFailures

Spec == Init /\ [][Next]_vars

(***************************************************************************)
(* What the specification expects, stated on the uploaded file.            *)
(***************************************************************************)
IsCsv == uploaded_file.kind = "csv"

RunOver == pc = "idle"

AllTabs == {"tab1", "tab2", "tab3", "tab4"}

\* The rows whose status, lower-cased, is "failed", in file order.
ExpectedFailed(f) == SelectSeq(ReadCsv(f).rows, LAMBDA r : Lower(r[COL_STATUS]) = "failed")

ExpectedSubset(f, toggle) ==
    IF toggle THEN [cols |-> f.header, rows |-> ExpectedFailed(f)] ELSE ReadCsv(f)

\* The failed lines of the file as written, blank cells being empty strings.
RawFailed(f) == SelectSeq(f.rows, LAMBDA r : Lower(ParseCell(r[COL_STATUS])) = "failed")

RawKey(r) == r[COL_NAME] \o " - " \o r[COL_START]

KeysDerived == failed_df # Undefined /\ COL_KEY \in heap[failed_df].cols

\* The first failed line, in file order, whose key is k.
FirstMatch(f, k) ==
    LET rows == RawFailed(f)
        hits == { i \in 1..Len(rows) : RawKey(rows[i]) = k }
    IN  rows[CHOOSE i \in hits : \A j \in hits : i <= j]

BlankTexts == {NaN, "", " "}

\* A cell of the file that is not read as missing.
Present(c) == ParseCell(c) # NaN

\* C1: with no Status column and the toggle on, the run shows the whole
\* table, warns, and reaches the end of the script.
C1_NoStatusDegrades ==
    (RunOver /\ IsCsv /\ COL_STATUS \notin uploaded_file.header /\ show_failed_only)
        => /\ shown = <<ReadCsv(uploaded_file)>>
           /\ Notice("warning", MSG_NO_STATUS) \in notices
           /\ exc = "none"
           /\ AllTabs \subseteq tabs

\* C2: a click on a selected row whose error text is empty, whitespace-only
\* or absent issues no remote call and shows the "no error message" notice.
C2_BlankErrorNoCall ==
    (button /\ error_text \in BlankTexts)
        => /\ invoked = <<>>
           /\ RunOver => Notice("info", MSG_NO_ERROR) \in notices

\* C3: a remote call that raises is shown as a message by the workflow and
\* the run goes on through the remaining tabs.
C3_RemoteFailureHandled ==
    (RunOver /\ \E i \in 1..Len(invoked) : invoked[i].outcome = "raise")
        => /\ exc = "none"
           /\ AllTabs \subseteq tabs
           /\ \E n \in notices : n.kind = "error"

\* C4: a malformed upload is reported and the run completes.
C4_MalformedCsvHandled ==
    (RunOver /\ uploaded_file.kind = "malformed")
        => /\ exc = "none"
           /\ AllTabs \subseteq tabs

\* C5: with a Status column, the table shown is exactly the failed rows in
\* file order when the toggle is on, and the whole table when it is off.
C5_FilterExact ==
    (RunOver /\ IsCsv /\ COL_STATUS \in uploaded_file.header)
        => shown = <<ExpectedSubset(uploaded_file, show_failed_only)>>

FirstFailedRow(t, n) ==
    CHOOSE i \in 1..Len(t.rows) :
        /\ IsFailedRow(t.rows[i]) /\ t.rows[i][COL_NAME] = n
        /\ \A j \in 1..(i - 1) : ~(IsFailedRow(t.rows[j]) /\ t.rows[j][COL_NAME] = n)

StableRanking(t) ==
    CHOOSE q \in Perms(FailingNames(t)) :
        \A i, j \in 1..Len(q) :
            i < j => \/ FailureCount(t, q[i]) > FailureCount(t, q[j])
                     \/ /\ FailureCount(t, q[i]) = FailureCount(t, q[j])
                        /\ FirstFailedRow(t, q[i]) < FirstFailedRow(t, q[j])

\* C8: a run that reaches the dashboard of a table with 'Status' and
\* 'Pipeline name' columns ends with the top-failing list: the first five
\* names of the stable ranking, each with its failure count.
C8_TopFiveStable ==
    (/\ RunOver /\ IsCsv /\ "tab2" \in tabs
     /\ {COL_STATUS, COL_NAME} \subseteq uploaded_file.header)
        => LET t == ReadCsv(uploaded_file)
               q == StableRanking(t)
           IN  failed_counts =
                   << [k \in 1..Min(TopN, Len(q)) |->
                         [name |-> q[k], count |-> FailureCount(t, q[k])]] >>

\* C9: with failed rows and the toggle on, a missing 'Pipeline name',
\* 'Run start' or 'Error' column is reported as a warning or info message
\* and the run reaches the end of the script.
C9_MissingColumnDegrades ==
    (/\ RunOver /\ IsCsv /\ show_failed_only
     /\ COL_STATUS \in uploaded_file.header
     /\ ExpectedFailed(uploaded_file) # <<>>
     /\ uploaded_file.header # AllCols)
        => /\ exc = "none"
           /\ AllTabs \subseteq tabs
           /\ \E n \in notices : n.kind \in {"warning", "info"}

\* C10 as stated: from its creation to the end of the run the loaded table
\* is the parse of the upload, whatever step has run.
C10_TableNeverMutated ==
    df # Undefined => heap[df] = ReadCsv(uploaded_file)

\* C10, amended: up to and including the dashboard's top-failing chart the
\* loaded table is the parse of the upload; the run-trend step, the last
\* one that reads it, overwrites 'Run start' with the coerced timestamps and
\* adds 'Date', and leaves every other cell as parsed.
C10_MutatedOnlyByTrend ==
    df # Undefined
        => IF daily_runs = <<>>
           THEN heap[df] = ReadCsv(uploaded_file)
           ELSE /\ pc \in {"tab3", "tab4", "idle"}
                /\ heap[df].cols = uploaded_file.header \cup {COL_DATE}
                /\ Len(heap[df].rows) = Len(uploaded_file.rows)
                /\ \A i \in 1..Len(heap[df].rows) :
                      \A c \in uploaded_file.header \ {COL_START} :
                          heap[df].rows[i][c] = ParseCell(uploaded_file.rows[i][c])

\* C10's case: the filter, the key derivation and the dashboard's counts
\* have run on a table with a non-failed row, and the trend step is next.
C10_Witness ==
    /\ pc = "trend"
    /\ KeysDerived
    /\ Len(heap[failed_df].rows) < Len(heap[df].rows)
    /\ heap[df] = ReadCsv(uploaded_file)

=============================================================================
